---- MODULE Spec2Model ----
(***************************************************************************)
(* Model of aio_run_in_process/_child.py: the worker process started by    *)
(* _run_process, the asyncio event loop it runs, and the two coroutines    *)
(* _do_async_fn and _handle_coro that race the task against SIGINT and     *)
(* SIGTERM.                                                                *)
(*                                                                         *)
(* The event loop is modelled as asyncio runs it: a FIFO queue `ready` of  *)
(* callbacks, run in batches (one batch per loop iteration); a future that *)
(* completes schedules its done-callbacks, a task that is woken runs until *)
(* its next await.  Signals and timers are noticed by the loop between two *)
(* batches only.                                                           *)
(***************************************************************************)
EXTENDS Integers, Sequences, FiniteSets, TLC

\* ---------------------------------------------------------------- bounds
MaxSigInt == 2      \* SIGINT occurrences the environment may send
MaxSigTerm == 1     \* SIGTERM occurrences the environment may send
MaxVal == 2         \* distinct values a task may return

\* ------------------------------------------------------- program constants
SIGTERM == 15       \* signal.SIGTERM, the only member of SHUTDOWN_SIGNALS
CODE_INTERRUPT == 2 \* except KeyboardInterrupt: code = 2
CODE_FAILURE == 1   \* except BaseException: code = 1
CODE_SUCCESS == 0   \* else: code = 0

Values == 1..MaxVal
Pids == {4242}

\* what a task may do when KeyboardInterrupt is thrown into it at its
\* suspension point: catch it and go on, return a value, let it propagate,
\* raise another error
OnThrows == {"resume", "return", "raise_ki", "raise_other"}

\* the bytes the supervisor sends: they decode to (async_fn, args) or not
Descriptors == [ok : BOOLEAN]
NoDescriptor == [ok |-> FALSE]

\* the order of the lifecycle states (State enumeration)
StateOrder ==
    <<"INITIALIZING", "INITIALIZED", "WAIT_EXEC_DATA", "BOOTING", "STARTED",
      "EXECUTING", "STOPPING", "FINISHED">>

\* ------------------------------------------------------------ codec boundary
\* pickle_value / RemoteException: an injective encoding of an outcome
Success(v) == [kind |-> "Success", value |-> v, error |-> "none"]
RemoteException(e) == [kind |-> "Failure", value |-> 0, error |-> e]
pickle_value(x) == <<"pickle", x>>
unpickle(b) == b[2]
Unbound == <<"unbound">>

\* ------------------------------------------------------------------ state
VARIABLES
    pc,                 \* position of _run_process
    to_parent,          \* messages written (and flushed) on the child-to-parent stream
    to_parent_closed,   \* the `with os.fdopen(fd_write)` block has been left
    from_parent,        \* "empty", "data" (descriptor written by the supervisor), "closed"
    descriptor,         \* the descriptor in flight / received
    task,               \* (async_fn, args) after receive_pickled_value
    result,             \* result of run_until_complete
    raised,             \* exception propagating out of run_until_complete ("none" if none)
    finished_payload,   \* local variable finished_payload
    code,               \* local variable code (-1: unbound)
    exit_status,        \* exit status of the process (-1: still running)
    ready,              \* the event loop's FIFO of ready callbacks
    batch,              \* callbacks left in the current loop iteration
    handlers,           \* signals with a handler installed by add_signal_handler
    system_exit_signum, \* the Future: 0 pending, else its result
    got_SIGINT,         \* the asyncio.Event
    main,               \* _do_async_fn task: its position
    waiterM,            \* waiter future of asyncio.wait in _do_async_fn
    async_fn_task,      \* _handle_coro task: [pc, st, val]
    h_must_cancel,      \* its _must_cancel flag
    waiterH,            \* waiter future of asyncio.wait in _handle_coro
    coro,               \* the task's coroutine: [st, val]
    inner,              \* the Task that shield() created to drive coro
    coro_task,          \* the future returned by shield(): [st, val]
    sigwait,            \* the task wrapping got_SIGINT.wait()
    sw_must_cancel,     \* its _must_cancel flag
    ev_waiter,          \* the future got_SIGINT.wait() blocks on
    cbs,                \* done-callbacks registered on each future
    hist                \* history: what has happened so far (observation only)

procVars == <<pc, to_parent, to_parent_closed, from_parent, descriptor, task, result,
              raised, finished_payload, code, exit_status>>
loopVars == <<ready, batch, handlers, system_exit_signum, got_SIGINT, main, waiterM,
              async_fn_task, h_must_cancel, waiterH, coro, inner, coro_task, sigwait,
              sw_must_cancel, ev_waiter, cbs>>
vars == <<procVars, loopVars, hist>>

NoCbs == [term |-> <<>>, handle |-> <<>>, outer |-> <<>>, sigwait |-> <<>>]

InitHist ==
    [nInt |-> 0,            \* SIGINT occurrences sent
     nTerm |-> 0,           \* SIGTERM occurrences sent
     intLive |-> 0,         \* SIGINT handler runs while the task was live
     throws |-> 0,          \* coro.throw(KeyboardInterrupt) calls on a live task
     throwRet |-> 0,        \* value the task returned when interrupted (0: none)
     throwOuts |-> {},      \* what the throws so far did
     termPending |-> FALSE, \* SIGTERM handler ran while the task was still pending
     raceBoth |-> FALSE,    \* _do_async_fn resumed with both futures done, task with a value
     failure |-> "none",    \* where a failure was raised: "decode", "boot", "run"
     forced |-> FALSE]      \* _do_async_fn raised SystemExit for the signal

Init ==
    /\ pc = "initialized"
    /\ to_parent = <<>>
    /\ to_parent_closed = FALSE
    /\ from_parent = "empty"
    /\ descriptor = NoDescriptor
    /\ task = NoDescriptor
    /\ result = 0
    /\ raised = "none"
    /\ finished_payload = Unbound
    /\ code = -1
    /\ exit_status = -1
    /\ ready = <<>>
    /\ batch = 0
    /\ handlers = {}
    /\ system_exit_signum = 0
    /\ got_SIGINT = FALSE
    /\ main = "new"
    /\ waiterM = "none"
    /\ async_fn_task = [pc |-> "none", st |-> "pending", val |-> 0]
    /\ h_must_cancel = FALSE
    /\ waiterH = "none"
    /\ coro = [st |-> "none", val |-> 0]
    /\ inner = [st |-> "none", val |-> 0]
    /\ coro_task = [st |-> "none", val |-> 0]
    /\ sigwait = "none"
    /\ sw_must_cancel = FALSE
    /\ ev_waiter = "none"
    /\ cbs = NoCbs
    /\ hist = InitHist

\* ------------------------------------------------- the state channel writes
Msg(state, payload) == [state |-> state, payload |-> payload]

\* int.to_bytes(len, 'big'): the len low-order bytes, most significant first
to_bytes(n, len) == [i \in 1..len |-> (n \div (256 ^ (len - i))) % 256]

\* to_parent.write(payload): the message sits in the buffer of the stream
write(tp, msg) ==
    Append(tp, [state |-> msg.state, payload |-> msg.payload, flushed |-> FALSE])

\* to_parent.flush(): everything written so far reaches the reader
flush(tp) == [i \in 1..Len(tp) |-> [tp[i] EXCEPT !.flushed = TRUE]]

\* mutation of update_state: the write is not flushed
update_state_buffered(tp, state) == write(tp, Msg(state, <<>>))

\* update_state: one tag, no payload, written and flushed
update_state(tp, state) == flush(write(tp, Msg(state, <<>>)))

\* update_state_initialized: tag + os.getpid() as 4 bytes
update_state_initialized(tp, pid) == flush(write(tp, Msg("INITIALIZED", to_bytes(pid, 4))))

\* update_state_finished: tag + the encoded outcome
update_state_finished(tp, payload) == flush(write(tp, Msg("FINISHED", payload)))

\* ------------------------------------------------------------ environment
\* The supervisor writes the encoded task descriptor on the inbound stream,
\* at any time after the spawn.
SupervisorWrite ==
    /\ from_parent = "empty"
    /\ exit_status = -1
    /\ \E d \in Descriptors : descriptor' = d
    /\ from_parent' = "data"
    /\ UNCHANGED <<pc, to_parent, to_parent_closed, task, result, raised,
                   finished_payload, code, exit_status, loopVars, hist>>

\* ------------------------------------------------------------ _run_process
\* an exception that leaves _run_process outside its try blocks: both `with`
\* blocks are left (the streams are closed) and the interpreter exits with 1
Crash(where) ==
    /\ pc' = "done"
    /\ to_parent_closed' = TRUE
    /\ from_parent' = "closed"
    /\ exit_status' = CODE_FAILURE
    /\ hist' = [hist EXCEPT !.failure = where]

\* line 230
Initialized ==
    /\ pc = "initialized"
    /\ \E pid \in Pids : to_parent' = update_state_initialized(to_parent, pid)
    /\ pc' = "wait_exec_data"
    /\ UNCHANGED <<to_parent_closed, from_parent, descriptor, task, result, raised,
                   finished_payload, code, exit_status, loopVars, hist>>

\* line 234
WaitExecData ==
    /\ pc = "wait_exec_data"
    /\ to_parent' = update_state(to_parent, "WAIT_EXEC_DATA")
    /\ pc' = "receive"
    /\ UNCHANGED <<to_parent_closed, from_parent, descriptor, task, result, raised,
                   finished_payload, code, exit_status, loopVars, hist>>

\* mutation of Receive: a read that does not block, and goes on with
\* whatever the stream holds
ReceiveWithoutBlocking ==
    /\ pc = "receive"
    /\ task' = descriptor
    /\ pc' = "booting"
    /\ UNCHANGED <<to_parent, to_parent_closed, from_parent, descriptor, result, raised,
                   finished_payload, code, exit_status, loopVars, hist>>

\* line 235: blocks until the descriptor is there, then decodes it
Receive ==
    /\ pc = "receive"
    /\ from_parent = "data"
    /\ IF descriptor.ok
          THEN /\ task' = descriptor
               /\ pc' = "booting"
               /\ from_parent' = "closed"
               /\ UNCHANGED <<to_parent_closed, exit_status, hist>>
          ELSE /\ Crash("decode")
               /\ UNCHANGED task
    /\ UNCHANGED <<to_parent, descriptor, result, raised, finished_payload, code,
                   loopVars>>

\* line 238
Booting ==
    /\ pc = "booting"
    /\ to_parent' = update_state(to_parent, "BOOTING")
    /\ pc' = "get_event_loop"
    /\ UNCHANGED <<to_parent_closed, from_parent, descriptor, task, result, raised,
                   finished_payload, code, exit_status, loopVars, hist>>

\* line 240: asyncio.get_event_loop() returns the loop, or raises
GetEventLoop ==
    /\ pc = "get_event_loop"
    /\ \/ /\ pc' = "run_until_complete"
          /\ UNCHANGED <<to_parent_closed, from_parent, exit_status, hist>>
       \/ Crash("boot")
    /\ UNCHANGED <<to_parent, descriptor, task, result, raised, finished_payload, code,
                   loopVars>>

\* line 244: run_until_complete wraps _do_async_fn in a task and schedules
\* its first step
RunUntilComplete ==
    /\ pc = "run_until_complete"
    /\ pc' = "loop"
    /\ ready' = <<"M">>
    /\ UNCHANGED <<to_parent, to_parent_closed, from_parent, descriptor, task, result,
                   raised, finished_payload, code, exit_status, batch, handlers,
                   system_exit_signum, got_SIGINT, main, waiterM, async_fn_task,
                   h_must_cancel, waiterH, coro, inner, coro_task, sigwait,
                   sw_must_cancel, ev_waiter, cbs, hist>>

\* mutation of ExceptPayload: `except Exception` in place of
\* `except BaseException`
ExceptPayloadExceptionOnly(exc, payload) ==
    IF exc \in {"none", "SystemExit", "KeyboardInterrupt"}
       THEN payload
       ELSE pickle_value(RemoteException(exc))

\* lines 247-252: the except clause around run_until_complete (skipped when
\* nothing was raised)
ExceptPayload(exc, payload) ==
    IF exc = "none" THEN payload ELSE pickle_value(RemoteException(exc))

CatchAll ==
    /\ pc = "except"
    /\ finished_payload' = ExceptPayload(raised, finished_payload)
    /\ pc' = "stopping"
    /\ UNCHANGED <<to_parent, to_parent_closed, from_parent, descriptor, task, result,
                   raised, code, exit_status, loopVars, hist>>

\* mutation of Stopping: STOPPING is written on the success path only
StoppingOnSuccessOnly ==
    /\ pc = "stopping"
    /\ to_parent' = IF raised = "none" THEN update_state(to_parent, "STOPPING")
                                       ELSE to_parent
    /\ pc' = "exit_code"
    /\ UNCHANGED <<to_parent_closed, from_parent, descriptor, task, result, raised,
                   finished_payload, code, exit_status, loopVars, hist>>

\* lines 253-255: finally
Stopping ==
    /\ pc = "stopping"
    /\ to_parent' = update_state(to_parent, "STOPPING")
    /\ pc' = "exit_code"
    /\ UNCHANGED <<to_parent_closed, from_parent, descriptor, task, result, raised,
                   finished_payload, code, exit_status, loopVars, hist>>

\* mutation of ExitCodeFor: no `except SystemExit` clause
ExitCodeForNoSystemExit(exc) ==
    CASE exc = "KeyboardInterrupt" -> CODE_INTERRUPT
      [] exc = "none" -> CODE_SUCCESS
      [] OTHER -> CODE_FAILURE

\* lines 256-264: the outer except clauses choose the exit code
ExitCodeFor(exc) ==
    CASE exc = "KeyboardInterrupt" -> CODE_INTERRUPT
      [] exc = "SystemExit" -> system_exit_signum
      [] exc = "none" -> CODE_SUCCESS
      [] OTHER -> CODE_FAILURE

\* mutation of ElsePayload: the result is not encoded
ElsePayloadKept(exc, res, payload) == payload

\* lines 262-263: on the else branch the result is encoded
ElsePayload(exc, res, payload) ==
    IF exc = "none" THEN pickle_value(Success(res)) ELSE payload

ExitCode ==
    /\ pc = "exit_code"
    /\ code' = ExitCodeFor(raised)
    /\ finished_payload' = ElsePayload(raised, result, finished_payload)
    /\ pc' = "finished"
    /\ UNCHANGED <<to_parent, to_parent_closed, from_parent, descriptor, task, result,
                   raised, exit_status, loopVars, hist>>

\* line 267
Finished ==
    /\ pc = "finished"
    /\ to_parent' = update_state_finished(to_parent, finished_payload)
    /\ pc' = "sys_exit"
    /\ UNCHANGED <<to_parent_closed, from_parent, descriptor, task, result, raised,
                   finished_payload, code, exit_status, loopVars, hist>>

\* line 268: sys.exit(code) leaves the `with` block, which closes to_parent
SysExit ==
    /\ pc = "sys_exit"
    /\ exit_status' = code
    /\ to_parent_closed' = TRUE
    /\ pc' = "done"
    /\ UNCHANGED <<to_parent, from_parent, descriptor, task, result, raised,
                   finished_payload, code, loopVars, hist>>

\* ------------------------------------------------------------ the event loop
InLoop == pc = "loop"
Running(cb) == InLoop /\ ready # <<>> /\ Head(ready) = cb

\* the callback at the head has run and scheduled the callbacks `new`
Done(new) ==
    /\ ready' = Tail(ready) \o new
    /\ batch' = IF batch = 0 THEN Len(ready) - 1 ELSE batch - 1

\* the loop is between two iterations: it polls for signals and timers
Idle == InLoop /\ batch = 0 /\ main \notin {"started", "term_handler", "executing"}

Live(c) == c.st \in {"unstarted", "suspended"}
IsDone(f) == f.st # "pending"
Without(q, cb) == SelectSeq(q, LAMBDA x : x # cb)

\* run_until_complete returns `res` or raises `exc`
LeaveLoop(exc, res) ==
    /\ pc' = "except"
    /\ raised' = exc
    /\ result' = res

\* lines 183-188: the OS delivers SIGINT; the loop finds its wakeup pipe
\* readable and queues the reader of that pipe
SigInt ==
    /\ Idle
    /\ "SIGINT" \in handlers
    /\ hist.nInt < MaxSigInt
    /\ ready' = Append(ready, "readINT")
    /\ hist' = [hist EXCEPT !.nInt = @ + 1]
    /\ UNCHANGED <<procVars, batch, handlers, system_exit_signum, got_SIGINT, main,
                   waiterM, async_fn_task, h_must_cancel, waiterH, coro, inner,
                   coro_task, sigwait, sw_must_cancel, ev_waiter, cbs>>

\* lines 173-178: the OS delivers SIGTERM
SigTerm ==
    /\ Idle
    /\ "SIGTERM" \in handlers
    /\ hist.nTerm < MaxSigTerm
    /\ ready' = Append(ready, "readTERM")
    /\ hist' = [hist EXCEPT !.nTerm = @ + 1]
    /\ UNCHANGED <<procVars, batch, handlers, system_exit_signum, got_SIGINT, main,
                   waiterM, async_fn_task, h_must_cancel, waiterH, coro, inner,
                   coro_task, sigwait, sw_must_cancel, ev_waiter, cbs>>

\* what the task awaits (a timer, I/O) is due: the loop queues the callback
\* that completes the awaited future
TaskReady ==
    /\ Idle
    /\ inner.st = "pending"
    /\ coro.st = "suspended"
    /\ \A i \in 1..Len(ready) : ready[i] \notin {"U", "wake"}
    /\ ready' = Append(ready, "wake")
    /\ UNCHANGED <<procVars, batch, handlers, system_exit_signum, got_SIGINT, main,
                   waiterM, async_fn_task, h_must_cancel, waiterH, coro, inner,
                   coro_task, sigwait, sw_must_cancel, ev_waiter, cbs, hist>>

\* the reader of the wakeup pipe queues the handler that add_signal_handler
\* registered for the signal (lines 174 and 185)
ReadSignal ==
    /\ \/ Running("readINT") /\ Done(<<"INT">>)
       \/ Running("readTERM") /\ Done(<<"TERM">>)
    /\ UNCHANGED <<procVars, handlers, system_exit_signum, got_SIGINT, main, waiterM,
                   async_fn_task, h_must_cancel, waiterH, coro, inner, coro_task,
                   sigwait, sw_must_cancel, ev_waiter, cbs, hist>>

\* the future the task awaits is completed: the step of the task is queued
TaskWake ==
    /\ Running("wake")
    /\ Done(<<"U">>)
    /\ UNCHANGED <<procVars, handlers, system_exit_signum, got_SIGINT, main, waiterM,
                   async_fn_task, h_must_cancel, waiterH, coro, inner, coro_task,
                   sigwait, sw_must_cancel, ev_waiter, cbs, hist>>

\* mutation of HandleSIGINT: the event is pulsed (set, then cleared at once)
HandleSIGINTPulse ==
    /\ Running("INT")
    /\ got_SIGINT' = FALSE
    /\ IF ~got_SIGINT /\ ev_waiter = "pending"
          THEN ev_waiter' = "done" /\ Done(<<"SW">>)
          ELSE UNCHANGED ev_waiter /\ Done(<<>>)
    /\ hist' = [hist EXCEPT !.intLive = IF Live(coro) THEN @ + 1 ELSE @]
    /\ UNCHANGED <<procVars, handlers, system_exit_signum, main, waiterM, async_fn_task,
                   h_must_cancel, waiterH, coro, inner, coro_task, sigwait,
                   sw_must_cancel, cbs>>

\* got_SIGINT.set, the SIGINT handler (line 187)
HandleSIGINT ==
    /\ Running("INT")
    /\ got_SIGINT' = TRUE
    /\ IF ~got_SIGINT /\ ev_waiter = "pending"
          THEN ev_waiter' = "done" /\ Done(<<"SW">>)
          ELSE UNCHANGED ev_waiter /\ Done(<<>>)
    /\ hist' = [hist EXCEPT !.intLive = IF Live(coro) THEN @ + 1 ELSE @]
    /\ UNCHANGED <<procVars, handlers, system_exit_signum, main, waiterM, async_fn_task,
                   h_must_cancel, waiterH, coro, inner, coro_task, sigwait,
                   sw_must_cancel, cbs>>

\* system_exit_signum.set_result, the SIGTERM handler (line 176); on a future
\* that is already done it raises InvalidStateError, which the loop logs
HandleSIGTERM ==
    /\ Running("TERM")
    /\ IF system_exit_signum = 0
          THEN /\ system_exit_signum' = SIGTERM
               /\ Done(cbs.term)
               /\ cbs' = [cbs EXCEPT !.term = <<>>]
               /\ hist' = [hist EXCEPT !.termPending = Live(coro)]
          ELSE /\ Done(<<>>)
               /\ UNCHANGED <<system_exit_signum, cbs, hist>>
    /\ UNCHANGED <<procVars, handlers, got_SIGINT, main, waiterM, async_fn_task,
                   h_must_cancel, waiterH, coro, inner, coro_task, sigwait,
                   sw_must_cancel, ev_waiter>>

\* ------------------------------------------------------------- _do_async_fn
\* line 166
DoAsyncFnStarted ==
    /\ Running("M")
    /\ main = "new"
    /\ to_parent' = update_state(to_parent, "STARTED")
    /\ main' = "started"
    /\ UNCHANGED <<pc, to_parent_closed, from_parent, descriptor, task, result, raised,
                   finished_payload, code, exit_status, ready, batch, handlers,
                   system_exit_signum, got_SIGINT, waiterM, async_fn_task, h_must_cancel,
                   waiterH, coro, inner, coro_task, sigwait, sw_must_cancel, ev_waiter,
                   cbs, hist>>

\* mutation of AddShutdownHandlers: the SIGINT handler is installed here too
AddAllHandlers ==
    /\ Running("M")
    /\ main = "started"
    /\ handlers' = handlers \cup {"SIGTERM", "SIGINT"}
    /\ main' = "term_handler"
    /\ UNCHANGED <<procVars, ready, batch, system_exit_signum, got_SIGINT, waiterM,
                   async_fn_task, h_must_cancel, waiterH, coro, inner, coro_task,
                   sigwait, sw_must_cancel, ev_waiter, cbs, hist>>

\* lines 170-178
AddShutdownHandlers ==
    /\ Running("M")
    /\ main = "started"
    /\ handlers' = handlers \cup {"SIGTERM"}
    /\ main' = "term_handler"
    /\ UNCHANGED <<procVars, ready, batch, system_exit_signum, got_SIGINT, waiterM,
                   async_fn_task, h_must_cancel, waiterH, coro, inner, coro_task,
                   sigwait, sw_must_cancel, ev_waiter, cbs, hist>>

\* line 181
DoAsyncFnExecuting ==
    /\ Running("M")
    /\ main = "term_handler"
    /\ to_parent' = update_state(to_parent, "EXECUTING")
    /\ main' = "executing"
    /\ UNCHANGED <<pc, to_parent_closed, from_parent, descriptor, task, result, raised,
                   finished_payload, code, exit_status, ready, batch, handlers,
                   system_exit_signum, got_SIGINT, waiterM, async_fn_task, h_must_cancel,
                   waiterH, coro, inner, coro_task, sigwait, sw_must_cancel, ev_waiter,
                   cbs, hist>>

\* lines 184-207: install the SIGINT handler, create the coroutine, start
\* _handle_coro as a task and wait for it or for system_exit_signum
DoAsyncFnWait ==
    /\ Running("M")
    /\ main = "executing"
    /\ handlers' = handlers \cup {"SIGINT"}
    /\ coro' = [st |-> "unstarted", val |-> 0]
    /\ async_fn_task' = [pc |-> "new", st |-> "pending", val |-> 0]
    /\ cbs' = [cbs EXCEPT !.handle = <<"waitM">>, !.term = <<"waitM">>]
    /\ waiterM' = "pending"
    /\ main' = "wait"
    /\ Done(<<"H">>)
    /\ UNCHANGED <<procVars, system_exit_signum, got_SIGINT, h_must_cancel, waiterH,
                   inner, coro_task, sigwait, sw_must_cancel, ev_waiter, hist>>

\* _on_completion of asyncio.wait in _do_async_fn (lines 204-207)
WaitMCompletion ==
    /\ Running("waitM")
    /\ IF waiterM = "pending"
          THEN waiterM' = "done" /\ Done(<<"M">>)
          ELSE UNCHANGED waiterM /\ Done(<<>>)
    /\ UNCHANGED <<procVars, handlers, system_exit_signum, got_SIGINT, main,
                   async_fn_task, h_must_cancel, waiterH, coro, inner, coro_task,
                   sigwait, sw_must_cancel, ev_waiter, cbs, hist>>

\* Task.cancel() on the got_SIGINT.wait() task: what it changes
CancelSigwait ==
    IF sigwait \in {"done", "cancelled"}
       THEN [ok |-> FALSE, ev |-> ev_waiter, must |-> sw_must_cancel, sched |-> <<>>]
    ELSE IF sigwait = "waiting" /\ ev_waiter = "pending"
       THEN [ok |-> TRUE, ev |-> "cancelled", must |-> sw_must_cancel, sched |-> <<"SW">>]
       ELSE [ok |-> TRUE, ev |-> ev_waiter, must |-> TRUE, sched |-> <<>>]

\* mutation of CancelHandleCoro: the cancellation is not requested
CancelHandleCoroLost ==
    [wH |-> waiterH, hmust |-> h_must_cancel, ev |-> ev_waiter,
     must |-> sw_must_cancel, sched |-> <<>>]

\* Task.cancel() on async_fn_task (line 78, called from line 211)
CancelHandleCoro ==
    IF async_fn_task.pc = "wait" /\ waiterH = "pending"
       THEN [wH |-> "cancelled", hmust |-> h_must_cancel, ev |-> ev_waiter,
             must |-> sw_must_cancel, sched |-> <<"H">>]
    ELSE IF async_fn_task.pc = "cleanup" /\ CancelSigwait.ok
       THEN [wH |-> waiterH, hmust |-> h_must_cancel, ev |-> CancelSigwait.ev,
             must |-> CancelSigwait.must, sched |-> CancelSigwait.sched]
       ELSE [wH |-> waiterH, hmust |-> TRUE, ev |-> ev_waiter,
             must |-> sw_must_cancel, sched |-> <<>>]

\* mutation of RaceM: the task is looked at first
RaceMTaskFirst(termDone, taskDone) ==
    IF taskDone THEN "task"
    ELSE IF termDone THEN "system_exit"
    ELSE "unreachable"

\* lines 209-216: which branch _do_async_fn takes when it resumes
RaceM(termDone, taskDone) ==
    IF termDone THEN "system_exit"
    ELSE IF taskDone THEN "task"
    ELSE "unreachable"

\* mutation of CleanupThenExit: the cleanup swallows every failure of the
\* task (`except BaseException: pass`)
CleanupSwallowsThenExit(h) ==
    /\ LeaveLoop("SystemExit", 0)
    /\ hist' = [h EXCEPT !.forced = TRUE]

\* _do_task_cleanup(async_fn_task) on a task that is done, then line 212:
\* the failure of the task is re-raised by `await task`, else SystemExit
CleanupThenExit(h) ==
    IF async_fn_task.st = "exception"
       THEN /\ LeaveLoop(async_fn_task.val, 0)
            /\ hist' = h
       ELSE /\ LeaveLoop("SystemExit", 0)
            /\ hist' = [h EXCEPT !.forced = TRUE]

\* lines 204-216: _do_async_fn resumes from asyncio.wait
DoAsyncFnResume ==
    /\ Running("M")
    /\ main = "wait"
    /\ LET branch == RaceM(system_exit_signum # 0, IsDone(async_fn_task))
           h == [hist EXCEPT !.raceBoth =
                     @ \/ (system_exit_signum # 0 /\ async_fn_task.st = "result")]
           removed == [cbs EXCEPT !.handle = Without(@, "waitM"),
                                  !.term = Without(@, "waitM")]
       IN  CASE branch = "system_exit" /\ ~IsDone(async_fn_task) ->
                  /\ waiterH' = CancelHandleCoro.wH
                  /\ h_must_cancel' = CancelHandleCoro.hmust
                  /\ ev_waiter' = CancelHandleCoro.ev
                  /\ sw_must_cancel' = CancelHandleCoro.must
                  /\ cbs' = [removed EXCEPT !.handle = Append(@, "M")]
                  /\ main' = "cleanup"
                  /\ Done(CancelHandleCoro.sched)
                  /\ hist' = h
                  /\ UNCHANGED <<pc, raised, result>>
             [] branch = "system_exit" /\ IsDone(async_fn_task) ->
                  /\ CleanupThenExit(h)
                  /\ cbs' = removed
                  /\ main' = "done"
                  /\ Done(<<>>)
                  /\ UNCHANGED <<waiterH, h_must_cancel, ev_waiter, sw_must_cancel>>
             [] branch = "task" ->
                  /\ IF async_fn_task.st = "result"
                        THEN LeaveLoop("none", async_fn_task.val)
                        ELSE LeaveLoop(async_fn_task.val, 0)
                  /\ cbs' = removed
                  /\ main' = "done"
                  /\ Done(<<>>)
                  /\ hist' = h
                  /\ UNCHANGED <<waiterH, h_must_cancel, ev_waiter, sw_must_cancel>>
             [] OTHER ->
                  /\ LeaveLoop("Exception", 0)
                  /\ cbs' = removed
                  /\ main' = "done"
                  /\ Done(<<>>)
                  /\ hist' = h
                  /\ UNCHANGED <<waiterH, h_must_cancel, ev_waiter, sw_must_cancel>>
    /\ UNCHANGED <<to_parent, to_parent_closed, from_parent, descriptor, task,
                   finished_payload, code, exit_status, handlers, system_exit_signum,
                   got_SIGINT, waiterM, async_fn_task, coro, inner, coro_task, sigwait>>

\* lines 211-212: _do_async_fn resumes from `await task` in _do_task_cleanup
DoAsyncFnCleanup ==
    /\ Running("M")
    /\ main = "cleanup"
    /\ CleanupThenExit(hist)
    /\ main' = "done"
    /\ Done(<<>>)
    /\ UNCHANGED <<to_parent, to_parent_closed, from_parent, descriptor, task,
                   finished_payload, code, exit_status, handlers, system_exit_signum,
                   got_SIGINT, waiterM, async_fn_task, h_must_cancel, waiterH, coro,
                   inner, coro_task, sigwait, sw_must_cancel, ev_waiter, cbs>>

\* ------------------------------------------------------------- _handle_coro
\* mutation of HandleCoroDone: a failure of _handle_coro is swallowed
\* (`except BaseException: pass`)
HandleCoroDoneSwallowed(st, val) ==
    /\ async_fn_task' = IF st = "exception"
                            THEN [pc |-> "done", st |-> "result", val |-> 0]
                            ELSE [pc |-> "done", st |-> st, val |-> val]
    /\ h_must_cancel' = FALSE

\* _handle_coro is done: its done-callbacks are scheduled
HandleCoroDone(st, val) ==
    /\ async_fn_task' = [pc |-> "done", st |-> st, val |-> val]
    /\ h_must_cancel' = FALSE

\* a new got_SIGINT.wait() task and a new waiter for asyncio.wait (lines 127-130)
NewWait ==
    /\ sigwait' = "new"
    /\ sw_must_cancel' = FALSE
    /\ ev_waiter' = "none"
    /\ waiterH' = "pending"

\* lines 121-130: shield(coro) creates the task that drives the coroutine,
\* then the first asyncio.wait
HandleCoroStart ==
    /\ Running("H")
    /\ async_fn_task.pc = "new"
    /\ inner' = [st |-> "pending", val |-> 0]
    /\ coro_task' = [st |-> "pending", val |-> 0]
    /\ NewWait
    /\ cbs' = [cbs EXCEPT !.outer = <<"waitH">>, !.sigwait = <<"waitH">>]
    /\ async_fn_task' = [async_fn_task EXCEPT !.pc = "wait"]
    /\ Done(<<"U", "SW">>)
    /\ UNCHANGED <<procVars, handlers, system_exit_signum, got_SIGINT, main, waiterM,
                   h_must_cancel, coro, hist>>

\* _on_completion of asyncio.wait in _handle_coro (lines 127-130)
WaitHCompletion ==
    /\ Running("waitH")
    /\ IF waiterH = "pending"
          THEN waiterH' = "done" /\ Done(<<"H">>)
          ELSE UNCHANGED waiterH /\ Done(<<>>)
    /\ UNCHANGED <<procVars, handlers, system_exit_signum, got_SIGINT, main, waiterM,
                   async_fn_task, h_must_cancel, coro, inner, coro_task, sigwait,
                   sw_must_cancel, ev_waiter, cbs, hist>>

\* mutation of RaceH: the event is looked at first
RaceHSigintFirst(coroDone, sigint) ==
    IF sigint THEN "sigint"
    ELSE IF coroDone THEN "done"
    ELSE "unreachable"

\* lines 132-156: which branch _handle_coro takes when it resumes
RaceH(coroDone, sigint) ==
    IF coroDone THEN "done"
    ELSE IF sigint THEN "sigint"
    ELSE "unreachable"

\* line 141: what coro.throw(KeyboardInterrupt) does to the coroutine, which
\* reacts as `react` (returning v).  An unstarted coroutine cannot catch the
\* exception; a finished one refuses the throw with RuntimeError.
Throw(c, react, v) ==
    IF c.st = "unstarted" THEN [out |-> "raise", val |-> "KeyboardInterrupt"]
    ELSE IF c.st # "suspended" THEN [out |-> "refused", val |-> "RuntimeError"]
    ELSE IF react = "resume" THEN [out |-> "resume", val |-> 0]
    ELSE IF react = "return" THEN [out |-> "return", val |-> v]
    ELSE IF react = "raise_ki" THEN [out |-> "raise", val |-> "KeyboardInterrupt"]
    ELSE [out |-> "raise", val |-> "OtherError"]

\* the state of the coroutine after the throw
Thrown(c, r) ==
    CASE r.out = "resume" -> c
      [] r.out = "return" -> [st |-> "returned", val |-> r.val]
      [] r.out = "raise" -> [st |-> "raised", val |-> r.val]
      [] OTHER -> c

\* mutation of StopIterationValue: the value of StopIteration is dropped
\* (a bare `return`)
StopIterationDropped(r) == 0

\* line 152: the value carried by StopIteration is the return value
StopIterationValue(r) == r.val

\* a task step that raises KeyboardInterrupt: Task.__step re-raises it and
\* it leaves run_until_complete at once
Escapes(exc) == exc = "KeyboardInterrupt"

\* the task was cancelled while in asyncio.wait: CancelledError leaves
\* _handle_coro (line 127)
HandleCoroCancelled ==
    /\ HandleCoroDone("cancelled", "CancelledError")
    /\ cbs' = [cbs EXCEPT !.handle = <<>>, !.outer = Without(@, "waitH"),
                          !.sigwait = Without(@, "waitH")]
    /\ Done(cbs.handle)
    /\ UNCHANGED <<pc, raised, result, got_SIGINT, coro, coro_task, sigwait,
                   sw_must_cancel, ev_waiter, waiterH, hist>>

\* lines 132-134: the task is done; the pending got_SIGINT.wait() is cancelled
\* and awaited, or (nothing pending) the result is taken at once
HandleCoroTaskDone ==
    /\ IF sigwait \in {"new", "waiting"}
          THEN /\ ev_waiter' = CancelSigwait.ev
               /\ sw_must_cancel' = CancelSigwait.must
               /\ cbs' = [cbs EXCEPT !.outer = Without(@, "waitH"), !.sigwait = <<"H">>]
               /\ async_fn_task' = [async_fn_task EXCEPT !.pc = "cleanup"]
               /\ Done(CancelSigwait.sched)
               /\ UNCHANGED h_must_cancel
          ELSE /\ HandleCoroDone(coro_task.st, coro_task.val)
               /\ cbs' = [cbs EXCEPT !.handle = <<>>, !.outer = Without(@, "waitH"),
                                     !.sigwait = Without(@, "waitH")]
               /\ Done(cbs.handle)
               /\ UNCHANGED <<ev_waiter, sw_must_cancel>>
    /\ UNCHANGED <<pc, raised, result, got_SIGINT, coro, coro_task, sigwait, waiterH,
                   hist>>

\* lines 135-154: SIGINT was received; KeyboardInterrupt is thrown into the
\* coroutine
HandleCoroSigint ==
    \E react \in OnThrows, v \in Values :
    LET r == Throw(coro, react, v)
        removed == [cbs EXCEPT !.outer = Without(@, "waitH"),
                               !.sigwait = Without(@, "waitH")]
    IN  /\ got_SIGINT' = FALSE
        /\ coro' = Thrown(coro, r)
        /\ hist' = [hist EXCEPT !.throws = @ + 1,
                                !.throwRet = IF r.out = "return" THEN r.val ELSE @,
                                !.throwOuts = @ \cup {r.out}]
        /\ CASE r.out = "resume" ->
                  /\ NewWait
                  /\ cbs' = [cbs EXCEPT !.outer = <<"waitH">>, !.sigwait = <<"waitH">>]
                  /\ Done(<<"SW">>)
                  /\ UNCHANGED <<pc, raised, result, async_fn_task, h_must_cancel,
                                 coro_task>>
             [] r.out = "return" ->
                  /\ coro_task' = [st |-> "cancelled", val |-> "CancelledError"]
                  /\ HandleCoroDone("result", StopIterationValue(r))
                  /\ cbs' = [removed EXCEPT !.handle = <<>>]
                  /\ Done(cbs.handle)
                  /\ UNCHANGED <<pc, raised, result, sigwait, sw_must_cancel, ev_waiter,
                                 waiterH>>
             [] OTHER ->
                  /\ HandleCoroDone("exception", r.val)
                  /\ cbs' = [removed EXCEPT !.handle = <<>>]
                  /\ IF Escapes(r.val)
                        THEN LeaveLoop(r.val, 0) /\ Done(<<>>)
                        ELSE Done(cbs.handle) /\ UNCHANGED <<pc, raised, result>>
                  /\ UNCHANGED <<coro_task, sigwait, sw_must_cancel, ev_waiter, waiterH>>

\* line 156
HandleCoroUnreachable ==
    /\ HandleCoroDone("exception", "Exception")
    /\ cbs' = [cbs EXCEPT !.handle = <<>>, !.outer = Without(@, "waitH"),
                          !.sigwait = Without(@, "waitH")]
    /\ Done(cbs.handle)
    /\ UNCHANGED <<pc, raised, result, got_SIGINT, coro, coro_task, sigwait,
                   sw_must_cancel, ev_waiter, waiterH, hist>>

\* lines 127-156: _handle_coro resumes from asyncio.wait
HandleCoroResume ==
    /\ Running("H")
    /\ async_fn_task.pc = "wait"
    /\ LET branch == RaceH(IsDone(coro_task), got_SIGINT)
       IN  CASE h_must_cancel \/ waiterH = "cancelled" -> HandleCoroCancelled
             [] branch = "done" -> HandleCoroTaskDone
             [] branch = "sigint" -> HandleCoroSigint
             [] OTHER -> HandleCoroUnreachable
    /\ UNCHANGED <<to_parent, to_parent_closed, from_parent, descriptor, task,
                   finished_payload, code, exit_status, handlers, system_exit_signum,
                   main, waiterM, inner>>

\* lines 133-134: _handle_coro resumes from `await task` in _do_task_cleanup
\* (a CancelledError is caught there, line 82) and returns the task's result
HandleCoroCleanup ==
    /\ Running("H")
    /\ async_fn_task.pc = "cleanup"
    /\ HandleCoroDone(coro_task.st, coro_task.val)
    /\ cbs' = [cbs EXCEPT !.handle = <<>>]
    /\ Done(cbs.handle)
    /\ UNCHANGED <<procVars, handlers, system_exit_signum, got_SIGINT, main, waiterM,
                   waiterH, coro, inner, coro_task, sigwait, sw_must_cancel, ev_waiter,
                   hist>>

\* ------------------------------------------------- got_SIGINT.wait() (line 128)
\* a step of the task wrapping Event.wait(): it returns True when the event
\* is set, else blocks on a new future; a cancelled task ends cancelled
SigwaitStep ==
    /\ Running("SW")
    /\ LET cancelled == sw_must_cancel \/ ev_waiter = "cancelled"
           finished == sigwait = "waiting" \/ got_SIGINT
       IN  IF cancelled \/ finished
              THEN /\ sigwait' = IF cancelled THEN "cancelled" ELSE "done"
                   /\ cbs' = [cbs EXCEPT !.sigwait = <<>>]
                   /\ Done(cbs.sigwait)
                   /\ UNCHANGED ev_waiter
              ELSE /\ sigwait' = "waiting"
                   /\ ev_waiter' = "pending"
                   /\ Done(<<>>)
                   /\ UNCHANGED cbs
    /\ sw_must_cancel' = FALSE
    /\ UNCHANGED <<procVars, handlers, system_exit_signum, got_SIGINT, main, waiterM,
                   async_fn_task, h_must_cancel, waiterH, coro, inner, coro_task, hist>>

\* ------------------------------------------------------- the task (line 193)
\* a step of the task created by shield(coro) (line 121): the coroutine runs
\* until its next await (on a future, or a bare yield as in sleep(0), after
\* which the step is queued again at once), returns or raises; a coroutine
\* that a throw has already finished cannot be resumed
TaskStep ==
    /\ Running("U")
    /\ inner.st = "pending"
    /\ \/ /\ Live(coro)
          /\ coro' = [coro EXCEPT !.st = "suspended"]
          /\ Done(<<>>) \/ Done(<<"U">>)
          /\ UNCHANGED inner
       \/ /\ Live(coro)
          /\ \E v \in Values :
                /\ coro' = [st |-> "returned", val |-> v]
                /\ inner' = [st |-> "result", val |-> v]
          /\ Done(<<"shield">>)
       \/ /\ Live(coro)
          /\ coro' = [st |-> "raised", val |-> "TaskError"]
          /\ inner' = [st |-> "exception", val |-> "TaskError"]
          /\ Done(<<"shield">>)
       \/ /\ ~Live(coro)
          /\ inner' = [st |-> "exception", val |-> "RuntimeError"]
          /\ Done(<<"shield">>)
          /\ UNCHANGED coro
    /\ UNCHANGED <<procVars, handlers, system_exit_signum, got_SIGINT, main, waiterM,
                   async_fn_task, h_must_cancel, waiterH, coro_task, sigwait,
                   sw_must_cancel, ev_waiter, cbs, hist>>

\* _inner_done_callback of asyncio.shield (line 121): the outcome of the
\* task is copied to coro_task unless that was cancelled
ShieldCallback ==
    /\ Running("shield")
    /\ IF coro_task.st = "pending"
          THEN /\ coro_task' = inner
               /\ cbs' = [cbs EXCEPT !.outer = <<>>]
               /\ Done(cbs.outer)
          ELSE /\ Done(<<>>)
               /\ UNCHANGED <<coro_task, cbs>>
    /\ UNCHANGED <<procVars, handlers, system_exit_signum, got_SIGINT, main, waiterM,
                   async_fn_task, h_must_cancel, waiterH, coro, inner, sigwait,
                   sw_must_cancel, ev_waiter, hist>>

\* ------------------------------------------------------------ specification
Environment == SupervisorWrite \/ SigInt \/ SigTerm \/ TaskReady

Worker ==
    \/ Initialized \/ WaitExecData \/ Receive \/ Booting \/ GetEventLoop
    \/ RunUntilComplete \/ CatchAll \/ Stopping \/ ExitCode \/ Finished \/ SysExit
    \/ ReadSignal \/ TaskWake \/ HandleSIGINT \/ HandleSIGTERM
    \/ DoAsyncFnStarted \/ AddShutdownHandlers \/ DoAsyncFnExecuting \/ DoAsyncFnWait
    \/ WaitMCompletion \/ DoAsyncFnResume \/ DoAsyncFnCleanup
    \/ HandleCoroStart \/ WaitHCompletion \/ HandleCoroResume \/ HandleCoroCleanup
    \/ SigwaitStep \/ TaskStep \/ ShieldCallback

Next == Environment \/ Worker

Spec == Init /\ [][Next]_vars

\* the interpreter and the event loop keep running the worker; nothing is
\* assumed about the environment or about the task ever becoming ready
FairSpec == Spec /\ WF_vars(Worker)

\* ------------------------------------------------------------------ claims
Exited == pc = "done"
States(tp) == [i \in 1..Len(tp) |-> tp[i].state]
FullOrder == SubSeq(StateOrder, 2, Len(StateOrder))
IsPrefix(p, q) == Len(p) <= Len(q) /\ SubSeq(q, 1, Len(p)) = p
Count(tp, state) == Cardinality({i \in 1..Len(tp) : tp[i].state = state})
LastMsg == to_parent[Len(to_parent)]
NoSignals == hist.nInt = 0 /\ hist.nTerm = 0
EndsStoppingFinished ==
    /\ Len(to_parent) >= 2
    /\ LastMsg.state = "FINISHED"
    /\ to_parent[Len(to_parent) - 1].state = "STOPPING"

\* C1: with no SIGINT and no SIGTERM sent, the state messages are at every
\* moment a prefix of INITIALIZED, WAIT_EXEC_DATA, BOOTING, STARTED,
\* EXECUTING, STOPPING, FINISHED; when the task has returned v and the
\* process has exited they are exactly that sequence, FINISHED carries the
\* encoding of Success(v) and the exit status is 0.
C1_NormalRun ==
    /\ NoSignals => IsPrefix(States(to_parent), FullOrder)
    /\ (NoSignals /\ coro.st = "returned" /\ Exited)
          => /\ States(to_parent) = FullOrder
             /\ LastMsg.payload = pickle_value(Success(coro.val))
             /\ exit_status = CODE_SUCCESS

C1_Witness ==
    /\ Exited /\ NoSignals /\ coro.st = "returned" /\ coro.val = MaxVal
    /\ Len(to_parent) = 7

C3_TerminateWins ==
    hist.raceBoth =>
        /\ pc # "loop" /\ raised = "SystemExit"
        /\ Exited => /\ exit_status = SIGTERM
                     /\ unpickle(LastMsg.payload).kind # "Success"

C3_Witness == Exited /\ hist.raceBoth /\ async_fn_task.st = "result"

\* C4 (as stated): after a forced exit no FINISHED message is written.
C4_Original == hist.forced => Count(to_parent, "FINISHED") = 0

\* C4 (amended): on the forced-exit path the worker still writes STOPPING and
\* then FINISHED; the payload of FINISHED is the encoded Failure wrapping the
\* SystemExit raised for the signal (never a Success), and the exit status is
\* the signal's number.
C4_ForcedExit ==
    (hist.forced /\ Exited) =>
        /\ EndsStoppingFinished
        /\ Count(to_parent, "FINISHED") = 1
        /\ LastMsg.payload = pickle_value(RemoteException("SystemExit"))
        /\ exit_status = SIGTERM

C4_Witness == Exited /\ hist.forced /\ LastMsg.state = "FINISHED"

\* C5: every failure raised while decoding the descriptor, while booting or
\* while running the task ends with STOPPING then FINISHED carrying a Failure
\* for that error.
C5_Original ==
    (Exited /\ (hist.failure # "none" \/ raised # "none")) =>
        /\ EndsStoppingFinished
        /\ unpickle(LastMsg.payload).kind = "Failure"

\* C6: whenever the worker has closed the child-to-parent stream, exactly one
\* FINISHED message is on it and it is the last message.
C6_Original ==
    to_parent_closed =>
        /\ Count(to_parent, "FINISHED") = 1
        /\ LastMsg.state = "FINISHED"

\* C7: every FINISHED message on the stream has a STOPPING message before it,
\* and there is at most one FINISHED message.
C7_StoppingFirst ==
    /\ \A i \in 1..Len(to_parent) :
          to_parent[i].state = "FINISHED" =>
              \E j \in 1..(i - 1) : to_parent[j].state = "STOPPING"
    /\ Count(to_parent, "FINISHED") <= 1

C7_Witness ==
    /\ Exited /\ raised = "KeyboardInterrupt"
    /\ Count(to_parent, "FINISHED") = 1

\* C8: a task that resumes on every interrupt and returns v by itself, with
\* SIGINT sent any number of times and no SIGTERM: the worker reports
\* Success(v) and exits with 0.
C8_Original ==
    (Exited /\ hist.throwOuts \subseteq {"resume", "refused"} /\ inner.st = "result"
        /\ hist.nTerm = 0) =>
        /\ exit_status = CODE_SUCCESS
        /\ LastMsg.payload = pickle_value(Success(inner.val))

\* C9 (as stated): a task that returns v when interrupted is reported as
\* Success(v) with exit status 0.
C9_Original ==
    (Exited /\ hist.throwRet # 0) =>
        /\ exit_status = CODE_SUCCESS
        /\ LastMsg.payload = pickle_value(Success(hist.throwRet))

\* C9 (amended): when the task returns v on the interrupt, _handle_coro
\* returns v; the worker then reports Success(v) with exit status 0, unless
\* SIGTERM was handled before _do_async_fn resumed, in which case the forced
\* exit wins (Failure wrapping SystemExit, exit status the signal's number).
\* The exit status is never 2.
C9_InterruptReturn ==
    hist.throwRet # 0 =>
        /\ async_fn_task.st = "result" /\ async_fn_task.val = hist.throwRet
        /\ Exited =>
              IF system_exit_signum = 0
                 THEN /\ exit_status = CODE_SUCCESS
                      /\ LastMsg.payload = pickle_value(Success(hist.throwRet))
                 ELSE /\ exit_status = SIGTERM
                      /\ LastMsg.payload = pickle_value(RemoteException("SystemExit"))

C9_Witness ==
    /\ Exited /\ hist.throwRet = MaxVal /\ exit_status = CODE_SUCCESS
    /\ unpickle(LastMsg.payload) = Success(MaxVal)

\* C10: whenever _handle_coro waits with the event clear and no SIGINT
\* handler queued, every SIGINT handled while the task was live has been
\* thrown into the task: as many throws as signals.
C10_Original ==
    (InLoop /\ async_fn_task.pc = "wait" /\ ~got_SIGINT /\ Live(coro)
        /\ \A i \in 1..Len(ready) : ready[i] \notin {"INT", "readINT"})
    => hist.throws = hist.intLive

StateIndex(st) == CHOOSE i \in 1..Len(StateOrder) : StateOrder[i] = st
StrictlyIncreasing(sts) ==
    \A i, j \in 1..Len(sts) : i < j => StateIndex(sts[i]) < StateIndex(sts[j])
FailureOccurred == raised # "none" \/ hist.failure # "none"

\* C12: the state messages are always strictly increasing in the lifecycle
\* order, and when the worker has exited they are the first k states of
\* INITIALIZED .. EXECUTING followed by STOPPING and FINISHED, with states
\* left out (k < 5) only when a failure has occurred.
C12_Original ==
    /\ StrictlyIncreasing(States(to_parent))
    /\ Exited =>
          \E k \in 0..5 :
              /\ States(to_parent) = SubSeq(FullOrder, 1, k) \o <<"STOPPING", "FINISHED">>
              /\ k < 5 => FailureOccurred

\* C12 apart from failures raised before the run starts (C5): the same
\* statement for the runs that reach run_until_complete
C12_InRun == hist.failure = "none" => C12_Original

\* C13: as long as the supervisor has not written the descriptor, the worker
\* has written nothing beyond INITIALIZED, WAIT_EXEC_DATA and has not gone
\* past the read; once BOOTING is on the stream, WAIT_EXEC_DATA was written
\* before it and the descriptor has been read and decoded.
C13_BlocksForDescriptor ==
    /\ from_parent = "empty" =>
          /\ IsPrefix(States(to_parent), <<"INITIALIZED", "WAIT_EXEC_DATA">>)
          /\ pc \in {"initialized", "wait_exec_data", "receive"}
    /\ Count(to_parent, "BOOTING") > 0 =>
          /\ IsPrefix(<<"INITIALIZED", "WAIT_EXEC_DATA", "BOOTING">>, States(to_parent))
          /\ from_parent = "closed"
          /\ task = descriptor /\ task.ok

\* the worker has written WAIT_EXEC_DATA and is blocked in the read: the
\* supervisor has not written yet
C13_Witness ==
    /\ pc = "receive" /\ from_parent = "empty"
    /\ Len(to_parent) = 2 /\ LastMsg.state = "WAIT_EXEC_DATA"

\* C14: once a KeyboardInterrupt thrown into the task has made a failure
\* propagate out of it (the interrupt itself or another error), _handle_coro
\* is done with that failure and throws nothing more; that failure is what
\* run_until_complete raises, and the worker ends with STOPPING then
\* FINISHED carrying the Failure for it.
C14_ThrowFailure ==
    "raise" \in hist.throwOuts =>
        /\ async_fn_task.pc = "done" /\ async_fn_task.st = "exception"
        /\ async_fn_task.val \in {"KeyboardInterrupt", "OtherError"}
        /\ coro = [st |-> "raised", val |-> async_fn_task.val]
        /\ pc # "loop" => raised = async_fn_task.val
        /\ Exited =>
              /\ EndsStoppingFinished
              /\ LastMsg.payload = pickle_value(RemoteException(async_fn_task.val))

C14_Witness ==
    /\ Exited /\ "raise" \in hist.throwOuts /\ raised = "OtherError"
    /\ system_exit_signum # 0 /\ LastMsg.state = "FINISHED"

\* C15 (as stated): whenever a signal handler is installed, EXECUTING has
\* been written.
C15_Original == handlers # {} => Count(to_parent, "EXECUTING") > 0

\* C15 (amended): the SIGTERM handler is installed after STARTED has been
\* written and before EXECUTING is; the SIGINT handler is installed only
\* after EXECUTING has been written (and after the SIGTERM handler); no
\* handler is installed before STARTED, and once EXECUTING has been written
\* the SIGTERM handler is installed.
C15_HandlersInstalled ==
    /\ "SIGTERM" \in handlers => Count(to_parent, "STARTED") = 1
    /\ "SIGINT" \in handlers =>
          /\ Count(to_parent, "EXECUTING") = 1
          /\ "SIGTERM" \in handlers
    /\ Count(to_parent, "EXECUTING") > 0 => "SIGTERM" \in handlers

\* the SIGTERM handler is installed and EXECUTING has not been written
C15_Witness ==
    /\ handlers = {"SIGTERM"} /\ main = "term_handler"
    /\ Count(to_parent, "EXECUTING") = 0 /\ LastMsg.state = "STARTED"

from_bytes(b) ==
    LET RECURSIVE val(_)
        val(k) == IF k = 0 THEN 0 ELSE 256 * val(k - 1) + b[k]
    IN  val(Len(b))
Tagged(m) ==
    /\ m.state \in {FullOrder[i] : i \in 1..Len(FullOrder)}
    /\ CASE m.state = "INITIALIZED" ->
               /\ Len(m.payload) = 4
               /\ \A i \in 1..4 : m.payload[i] \in 0..255
               /\ from_bytes(m.payload) \in Pids
          [] m.state = "FINISHED" -> m.payload = finished_payload
          [] OTHER -> m.payload = <<>>

\* C16: in every state (between any two steps of the worker, so wherever it
\* blocks or suspends) every message written so far has been flushed, and
\* each is one tag with its payload: the process id as 4 big-endian bytes for
\* INITIALIZED, the encoded outcome for FINISHED, nothing for the others.
C16_WrittenAndFlushed ==
    \A i \in 1..Len(to_parent) : to_parent[i].flushed /\ Tagged(to_parent[i])

\* the worker is suspended in the scheduler, the task is running, and the
\* five messages up to EXECUTING are on the stream
C16_Witness ==
    /\ InLoop /\ main = "wait" /\ coro.st = "suspended"
    /\ Len(to_parent) = 5 /\ \A i \in 1..5 : to_parent[i].flushed

\* _handle_coro is about to resume from asyncio.wait (not cancelled) with
\* coro_task done and got_SIGINT set
RaceHBoth ==
    /\ Running("H") /\ async_fn_task.pc = "wait"
    /\ ~(h_must_cancel \/ waiterH = "cancelled")
    /\ IsDone(coro_task) /\ got_SIGINT

\* C17: when _handle_coro resumes with coro_task done and got_SIGINT set,
\* its step throws nothing into the coroutine and leaves got_SIGINT set; it
\* either returns at once what coro_task holds (result or failure) or first
\* awaits the cleanup of the pending wait, and from that cleanup it returns
\* what coro_task holds.
C17_CompletionFirst ==
    [][/\ (RaceHBoth /\ async_fn_task' # async_fn_task) =>
            /\ hist'.throws = hist.throws
            /\ got_SIGINT' /\ coro' = coro /\ coro_task' = coro_task
            /\ \/ async_fn_task'.pc = "cleanup"
               \/ async_fn_task' = [pc |-> "done", st |-> coro_task.st,
                                     val |-> coro_task.val]
       /\ (async_fn_task.pc = "cleanup" /\ async_fn_task' # async_fn_task) =>
            /\ hist'.throws = hist.throws /\ got_SIGINT' = got_SIGINT
            /\ async_fn_task' = [pc |-> "done", st |-> coro_task.st,
                                  val |-> coro_task.val]]_vars

\* the SIGINT handler ran while the task was live, _handle_coro then resumed
\* with the task done and returned its value: nothing was thrown and the
\* event is still set
C17_Witness ==
    /\ Exited /\ exit_status = CODE_SUCCESS
    /\ hist.intLive > 0 /\ hist.throws = 0 /\ got_SIGINT
    /\ async_fn_task = [pc |-> "done", st |-> "result", val |-> coro.val]

C19_NeverTaken ==
    /\ (Running("H") /\ async_fn_task.pc = "wait"
            /\ ~(h_must_cancel \/ waiterH = "cancelled"))
          => (IsDone(coro_task) \/ got_SIGINT)
    /\ (Running("M") /\ main = "wait")
          => (system_exit_signum # 0 \/ IsDone(async_fn_task))
    /\ raised # "Exception"
    /\ ~(async_fn_task.st = "exception" /\ async_fn_task.val = "Exception")

\* _handle_coro has resumed from its wait for an interrupt and thrown it,
\* it has finished since, and _do_async_fn is about to resume from its wait
C19_Witness ==
    /\ Running("M") /\ main = "wait"
    /\ hist.throws > 0 /\ IsDone(async_fn_task)

====
